---- MODULE Spec2Model ----
(***************************************************************************)
(* OmniPath "run" command: service selection (multi-select picker), the    *)
(* foreground run of non-interactive services, the concurrent launch of    *)
(* interactive services, the stdout/stderr drain goroutines, and the       *)
(* Bubbletea session multiplexer.                                          *)
(*                                                                         *)
(* Three specifications share the variables:                               *)
(*   Spec       runCmd.Run from detection to the hand-over to the UI       *)
(*   SpecUI     the multiplexer event loop over a launched registry        *)
(*   SpecDrain  the two drain goroutines of the launched sessions          *)
(*                                                                         *)
(* Indices into Go slices are kept 0-based (activeIndex, cursor); TLA+     *)
(* sequences are 1-based, so slice[i] is written seq[i + 1].               *)
(***************************************************************************)
EXTENDS Integers, Sequences, FiniteSets, TLC

\* ------------------------------------------------------------------ bounds
MaxServices == 3
MaxEvents == 4
MaxLines == 2
MaxRows == 7

\* ---------------------------------------------------------------- variables
VARIABLES
    \* runCmd.Run
    pc, allServices, selectedServices, interactiveServices,
    nonInteractiveServices, niIndex, niLog, spawnIdx,
    \* multiSelectModel / RunMultiSelect
    pickerState, items, cursor, selected, pickerQuitPending,
    pickerRan, quitKeySeen, lastConfirm,
    \* launch goroutines
    taskPc, taskOutcome, sessName, sessions, mu, wg,
    \* drain goroutines
    readPolicy, pipe, drainPc, chunk, tmp, Output, readLog, appendLog,
    \* multiplexerModel / tea.Program
    uiState, activeIndex, quitPending, updateCh, waiters, tickMsgs,
    stdinWrites, sigAttempts, sigKills, events, lastEvent,
    \* child processes and their pipes
    niRunning, alive, stdinOpen, written,
    \* the terminal: rendered view; SIGINT sent to omnipath
    view, interrupt

flowVars == <<pc, allServices, selectedServices, interactiveServices,
              nonInteractiveServices, niIndex, niLog, spawnIdx>>
pickerVars == <<pickerState, items, cursor, selected, pickerQuitPending,
                pickerRan, quitKeySeen, lastConfirm>>
launchVars == <<taskPc, taskOutcome, sessName, sessions, mu, wg>>
drainVars == <<readPolicy, pipe, drainPc, chunk, tmp, Output, readLog, appendLog>>
uiVars == <<uiState, activeIndex, quitPending, updateCh, waiters, tickMsgs,
            stdinWrites, sigAttempts, sigKills, events, lastEvent>>
procVars == <<niRunning, alive, stdinOpen, written>>
termVars == <<view, interrupt>>
vars == <<flowVars, pickerVars, launchVars, drainVars, uiVars, procVars, termVars>>

\* ------------------------------------------------------------------ helpers
Ids == 1..MaxServices
Streams == {"stdout", "stderr"}
NoOwner == <<"none">>
NoConfirm == [cursor |-> -1, checked |-> {}]

NameOf(i) == <<"a", "b", "c", "d", "e">>[i]

\* tui.Service
Service(i, interactive) ==
    [Name |-> NameOf(i), Command |-> "run-" \o NameOf(i), Interactive |-> interactive]

\* the descriptor lists detect.GetServices can return
ServiceLists ==
    UNION {{[i \in 1..n |-> Service(i, f[i])] : f \in [1..n -> BOOLEAN]} : n \in 0..MaxServices}

RECURSIVE Flatten(_)
Flatten(ss) == IF ss = <<>> THEN <<>> ELSE Head(ss) \o Flatten(Tail(ss))

IsPrefix(s, t) == Len(s) <= Len(t) /\ SubSeq(t, 1, Len(s)) = s

Range(s) == {s[i] : i \in 1..Len(s)}

\* ------------------------------------------------------ runCmd.Run: selection
NeedsPicker_Always(n) == n >= 1
NeedsPicker(n) == n > 1

IsInteractive(s) == s.Interactive

NewItems(services) ==
    [i \in 1..Len(services) |-> [Service |-> services[i], Selected |-> FALSE]]

\* len(detectServices) == 0 -> return; > 1 -> RunMultiSelect; else the single one
Detect ==
    /\ pc = "detect"
    /\ IF Len(allServices) = 0
       THEN /\ pc' = "returned"
            /\ UNCHANGED <<selectedServices, pickerVars>>
       ELSE IF NeedsPicker(Len(allServices))
       THEN /\ pc' = "picker"
            /\ pickerState' = "running"
            /\ items' = NewItems(allServices)
            /\ cursor' = 0
            /\ selected' = <<>>
            /\ pickerRan' = TRUE
            /\ UNCHANGED <<selectedServices, pickerQuitPending, quitKeySeen, lastConfirm>>
       ELSE /\ pc' = "split"
            /\ selectedServices' = <<allServices[1]>>
            /\ UNCHANGED pickerVars
    /\ UNCHANGED <<allServices, interactiveServices, nonInteractiveServices,
                   niIndex, niLog, spawnIdx>>
    /\ UNCHANGED <<launchVars, drainVars, uiVars>>
    /\ UNCHANGED <<procVars, termVars>>

\* ------------------------------------------------------ multiSelectModel
PickerKeys == {"ctrl+c", "q", "up", "k", "down", "j", " ", "enter"}

\* bubbles list cursor movement: bounded, no wraparound
CursorUp(c) == IF c > 0 THEN c - 1 ELSE c
CursorDown(c, n) == IF c < n - 1 THEN c + 1 ELSE c

ToggleItem(its, c) == [its EXCEPT ![c + 1].Selected = ~@]

CheckedServices_Reversed(its) ==
    LET chk == SelectSeq(its, LAMBDA it : it.Selected)
    IN  [i \in 1..Len(chk) |-> chk[Len(chk) + 1 - i].Service]
CheckedServices(its) ==
    LET chk == SelectSeq(its, LAMBDA it : it.Selected)
    IN  [i \in 1..Len(chk) |-> chk[i].Service]

ConfirmSelection_First(its, c) ==
    IF Len(CheckedServices(its)) = 0
    THEN <<its[1].Service>>
    ELSE CheckedServices(its)
ConfirmSelection(its, c) ==
    IF Len(CheckedServices(its)) = 0
    THEN <<its[c + 1].Service>>
    ELSE CheckedServices(its)

CheckedRows(its) == {i \in 1..Len(its) : its[i].Selected}

\* multiSelectModel.Update for one key message.  tea.Quit is a command: the
\* QuitMsg it produces reaches the event loop later (PickerExit), and key
\* messages that arrive before it are still passed to Update.
PickerUpdate(k) ==
    /\ pc = "picker"
    /\ pickerState = "running"
    /\ CASE k \in {"ctrl+c", "q"} ->
              /\ pickerQuitPending' = TRUE
              /\ quitKeySeen' = TRUE
              /\ UNCHANGED <<items, cursor, selected, lastConfirm>>
         [] k \in {"up", "k"} ->
              /\ cursor' = CursorUp(cursor)
              /\ UNCHANGED <<items, selected, pickerQuitPending, quitKeySeen, lastConfirm>>
         [] k \in {"down", "j"} ->
              /\ cursor' = CursorDown(cursor, Len(items))
              /\ UNCHANGED <<items, selected, pickerQuitPending, quitKeySeen, lastConfirm>>
         [] k = " " ->
              /\ items' = ToggleItem(items, cursor)
              /\ UNCHANGED <<cursor, selected, pickerQuitPending, quitKeySeen, lastConfirm>>
         [] k = "enter" ->
              /\ selected' = ConfirmSelection(items, cursor)
              /\ pickerQuitPending' = TRUE
              /\ lastConfirm' = [cursor |-> cursor, checked |-> CheckedRows(items)]
              /\ UNCHANGED <<items, cursor, quitKeySeen>>
    /\ UNCHANGED <<pickerState, pickerRan>>
    /\ UNCHANGED <<flowVars, launchVars, drainVars, uiVars>>
    /\ UNCHANGED <<procVars, termVars>>

\* QuitMsg reaches the event loop: p.Run returns the final model,
\* RunMultiSelect returns m.selected, and the caller tests len(selected) == 0.
\* The list model is dropped with the program (only m.selected is kept).
PickerExit ==
    /\ pc = "picker"
    /\ pickerState = "running"
    /\ pickerQuitPending
    /\ pickerState' = "exited"
    /\ pickerQuitPending' = FALSE
    /\ IF Len(selected) = 0
       THEN pc' = "returned" /\ UNCHANGED selectedServices
       ELSE pc' = "split" /\ selectedServices' = selected
    /\ items' = <<>>
    /\ cursor' = 0
    /\ UNCHANGED <<selected, pickerRan, quitKeySeen, lastConfirm>>
    /\ UNCHANGED <<allServices, interactiveServices, nonInteractiveServices,
                   niIndex, niLog, spawnIdx>>
    /\ UNCHANGED <<launchVars, drainVars, uiVars>>
    /\ UNCHANGED <<procVars, termVars>>

\* p.Run returns an error: log.Fatalf("Error selecting service")
PickerError ==
    /\ pc = "picker"
    /\ pickerState = "running"
    /\ pickerState' = "failed"
    /\ pc' = "fatal"
    /\ UNCHANGED <<items, cursor, selected, pickerQuitPending, pickerRan,
                   quitKeySeen, lastConfirm>>
    /\ UNCHANGED <<allServices, selectedServices, interactiveServices,
                   nonInteractiveServices, niIndex, niLog, spawnIdx>>
    /\ UNCHANGED <<launchVars, drainVars, uiVars>>
    /\ UNCHANGED <<procVars, termVars>>

\* ---------------------------------------------- runCmd.Run: split and run
\* the services of a list that satisfy / do not satisfy s.Interactive, in order
InteractiveOf(services) == SelectSeq(services, LAMBDA s : IsInteractive(s))
NonInteractiveOf(services) == SelectSeq(services, LAMBDA s : ~IsInteractive(s))

Split ==
    /\ pc = "split"
    /\ interactiveServices' = InteractiveOf(selectedServices)
    /\ nonInteractiveServices' = NonInteractiveOf(selectedServices)
    /\ niIndex' = 0
    /\ pc' = "nonint"
    /\ UNCHANGED <<allServices, selectedServices, niLog, spawnIdx>>
    /\ UNCHANGED <<pickerVars, launchVars, drainVars, uiVars>>
    /\ UNCHANGED <<procVars, termVars>>

RunOutcomes == {"ok", "spawnErr", "exitErr"}

\* c.Run() starts the command and waits for it: the loop body does not go on
\* to the next service while a command is inside c.Run()
RunReturned_NoWait(running) == TRUE
RunReturned(running) == running = {}

\* one iteration of the foreground loop enters c.Run()
NonInteractiveStart ==
    /\ pc = "nonint"
    /\ RunReturned(niRunning)
    /\ niIndex + Cardinality(niRunning) < Len(nonInteractiveServices)
    /\ niRunning' = niRunning \cup {niIndex + Cardinality(niRunning) + 1}
    /\ UNCHANGED <<alive, stdinOpen, written>>
    /\ UNCHANGED <<flowVars, pickerVars, launchVars, drainVars, uiVars, termVars>>

\* c.Run() returns (the command could not be spawned, or it has exited); an
\* error is logged and nothing else is done with it
RunNonInteractive(o) ==
    /\ pc = "nonint"
    /\ niIndex + 1 \in niRunning
    /\ niRunning' = niRunning \ {niIndex + 1}
    /\ niLog' = Append(niLog, [Name |-> nonInteractiveServices[niIndex + 1].Name,
                               outcome |-> o])
    /\ niIndex' = niIndex + 1
    /\ UNCHANGED <<pc, allServices, selectedServices, interactiveServices,
                   nonInteractiveServices, spawnIdx>>
    /\ UNCHANGED <<pickerVars, launchVars, drainVars, uiVars>>
    /\ UNCHANGED <<alive, stdinOpen, written, termVars>>

\* the foreground loop is over: if len(interactiveServices) > 0 { ... }
\* if len(interactiveServices) > 0 { ... }
HasInteractive_Always(services) == TRUE
HasInteractive(services) == Len(services) > 0

AfterNonInteractive ==
    /\ pc = "nonint"
    /\ niIndex + Cardinality(niRunning) = Len(nonInteractiveServices)
    /\ RunReturned(niRunning)
    /\ IF HasInteractive(interactiveServices)
       THEN pc' = "launch" /\ spawnIdx' = 0
       ELSE pc' = "returned" /\ UNCHANGED spawnIdx
    /\ UNCHANGED <<allServices, selectedServices, interactiveServices,
                   nonInteractiveServices, niIndex, niLog>>
    /\ UNCHANGED <<pickerVars, launchVars, drainVars, uiVars>>
    /\ UNCHANGED <<procVars, termVars>>

\* ------------------------------------------------------- launch goroutines
LaunchOutcomes == {"stdoutPipeErr", "stderrPipeErr", "stdinPipeErr", "startErr", "ok"}

LaunchSucceeded_IgnoreStart(o) == o \in {"ok", "startErr"}
LaunchSucceeded(o) == o = "ok"

MuFree_Always(m) == TRUE
MuFree(m) == m = NoOwner

NoSessions_Never(ss) == FALSE
NoSessions(ss) == Len(ss) = 0

\* for _, s := range interactiveServices { wg.Add(1); go func(s) {...}(s) }
LaunchLoop ==
    /\ pc = "launch"
    /\ IF spawnIdx < Len(interactiveServices)
       THEN /\ wg' = wg + 1
            /\ taskPc' = [taskPc EXCEPT ![spawnIdx + 1] = "start"]
            /\ spawnIdx' = spawnIdx + 1
            /\ UNCHANGED pc
       ELSE /\ pc' = "wait"
            /\ UNCHANGED <<wg, taskPc, spawnIdx>>
    /\ UNCHANGED <<allServices, selectedServices, interactiveServices,
                   nonInteractiveServices, niIndex, niLog>>
    /\ UNCHANGED <<taskOutcome, sessName, sessions, mu>>
    /\ UNCHANGED <<pickerVars, drainVars, uiVars>>
    /\ UNCHANGED <<procVars, termVars>>

\* the three pipes, c.Start(), the Session value and the two drain goroutines;
\* any error is logged and the task returns (deferred wg.Done)
TaskStart(i, o) ==
    /\ taskPc[i] = "start"
    /\ taskOutcome' = [taskOutcome EXCEPT ![i] = o]
    /\ IF LaunchSucceeded(o)
       THEN /\ sessName' = [sessName EXCEPT ![i] = interactiveServices[i].Name]
            /\ Output' = [Output EXCEPT ![i] = <<>>]
            /\ drainPc' = [drainPc EXCEPT ![i] = [st \in Streams |-> "read"]]
            /\ taskPc' = [taskPc EXCEPT ![i] = "lock"]
            /\ alive' = [alive EXCEPT ![i] = TRUE]
            /\ stdinOpen' = [stdinOpen EXCEPT ![i] = TRUE]
            /\ UNCHANGED wg
       ELSE /\ taskPc' = [taskPc EXCEPT ![i] = "failed"]
            /\ wg' = wg - 1
            /\ UNCHANGED <<sessName, Output, drainPc, alive, stdinOpen>>
    /\ UNCHANGED <<sessions, mu>>
    /\ UNCHANGED <<readPolicy, pipe, chunk, tmp, readLog, appendLog>>
    /\ UNCHANGED <<flowVars, pickerVars, uiVars>>
    /\ UNCHANGED <<niRunning, written, termVars>>

\* mu.Lock()
TaskLock(i) ==
    /\ taskPc[i] = "lock"
    /\ MuFree(mu)
    /\ mu' = <<"task", i>>
    /\ taskPc' = [taskPc EXCEPT ![i] = "append"]
    /\ UNCHANGED <<taskOutcome, sessName, sessions, wg>>
    /\ UNCHANGED <<flowVars, pickerVars, drainVars, uiVars>>
    /\ UNCHANGED <<procVars, termVars>>

\* sessions = append(sessions, session)
TaskAppend(i) ==
    /\ taskPc[i] = "append"
    /\ sessions' = Append(sessions, i)
    /\ taskPc' = [taskPc EXCEPT ![i] = "unlock"]
    /\ UNCHANGED <<taskOutcome, sessName, mu, wg>>
    /\ UNCHANGED <<flowVars, pickerVars, drainVars, uiVars>>
    /\ UNCHANGED <<procVars, termVars>>

\* mu.Unlock(), then the deferred wg.Done()
TaskUnlock(i) ==
    /\ taskPc[i] = "unlock"
    /\ mu' = NoOwner
    /\ taskPc' = [taskPc EXCEPT ![i] = "done"]
    /\ wg' = wg - 1
    /\ UNCHANGED <<taskOutcome, sessName, sessions>>
    /\ UNCHANGED <<flowVars, pickerVars, drainVars, uiVars>>
    /\ UNCHANGED <<procVars, termVars>>

\* session.Output += line
AppendOutput_Prepend(out, c) == c \o out
AppendOutput(out, c) == out \o c

\* ----------------------------------------------------- multiplexerModel.View
\* const headerHeight = 6
headerHeight == 6

TitleLine == [marker |-> "", index |-> -1, name |-> "Sessions:"]
PadLine == [marker |-> "", index |-> -1, name |-> ""]

\* fmt.Sprintf("%s%d: %s", marker, i, sess.Name) for the j-th session (i = j-1)
HeaderRow(ss, names, idx, j) ==
    [marker |-> IF j - 1 = idx THEN "> " ELSE "  ", index |-> j - 1, name |-> names[ss[j]]]

\* "Sessions:", one row per session, then padding while len < headerHeight
HeaderLines(ss, names, idx) ==
    LET lines == <<TitleLine>> \o [j \in 1..Len(ss) |-> HeaderRow(ss, names, idx, j)]
    IN  IF Len(lines) < headerHeight
        THEN lines \o [k \in 1..(headerHeight - Len(lines)) |-> PadLine]
        ELSE lines

\* nothing has been rendered
NoView == [header |-> <<>>, output |-> <<>>]

\* header, separator, and the Output that was read
View(ss, names, idx, out) == [header |-> HeaderLines(ss, names, idx), output |-> out]

\* bytes of an old buffer read with the length of the new one
Garbage(n) == [k \in 1..n |-> "?"]

\* the values m.sessions[m.activeIndex].Output can yield.  View takes no lock
\* (the mu of runCmd.Run is not reachable from the model, the mu field of
\* multiplexerModel is never locked), so the read is unordered with a drain's
\* store to the same string: while drain (i, st) is storing, the read can
\* see the string as it is (the store itself is the next step of the drain)
\* or the old pointer with the new length.
OutputReads(i) ==
    {Output[i]} \cup
    {tmp[i][st] \o Garbage(Len(chunk[i][st])) :
         st \in {x \in Streams : drainPc[i][x] = "store"}}

\* the event loop renders the model after Init and after every Update; an
\* index outside the registry would make View panic and nothing is rendered
Render(idx) ==
    IF idx + 1 \in 1..Len(sessions)
    THEN \E o \in OutputReads(sessions[idx + 1]) :
             view' = View(sessions, sessName, idx, o)
    ELSE view' = NoView

\* wg.Wait() blocks until every launch goroutine has called wg.Done()
WaitReturns_Early(w) == TRUE
WaitReturns(w) == w = 0

\* wg.Wait() returns; log.Fatalf on an empty registry, else RunMultiplexer:
\* NewMultiplexerModel (activeIndex 0) and the command returned by Init,
\* and the first rendering
WaitDone ==
    /\ pc = "wait"
    /\ WaitReturns(wg)
    /\ IF NoSessions(sessions)
       THEN /\ pc' = "fatal"
            /\ UNCHANGED <<uiState, activeIndex, waiters, view>>
       ELSE /\ pc' = "ui"
            /\ uiState' = "running"
            /\ activeIndex' = 0
            /\ waiters' = 1
            /\ Render(0)
    /\ UNCHANGED <<allServices, selectedServices, interactiveServices,
                   nonInteractiveServices, niIndex, niLog, spawnIdx>>
    /\ UNCHANGED <<quitPending, updateCh, tickMsgs, stdinWrites, sigAttempts,
                   sigKills, events, lastEvent>>
    /\ UNCHANGED <<pickerVars, launchVars, drainVars>>
    /\ UNCHANGED <<procVars, interrupt>>

\* RunMultiplexer returns to runCmd.Run: nil, or an error and log.Fatalf
UIReturn(err) ==
    /\ pc = "ui"
    /\ uiState = "running"
    /\ uiState' = "exited"
    /\ pc' = IF err THEN "fatal" ELSE "returned"
    /\ UNCHANGED <<allServices, selectedServices, interactiveServices,
                   nonInteractiveServices, niIndex, niLog, spawnIdx>>
    /\ UNCHANGED <<activeIndex, quitPending, updateCh, waiters, tickMsgs,
                   stdinWrites, sigAttempts, sigKills, events, lastEvent>>
    /\ UNCHANGED <<pickerVars, launchVars, drainVars>>
    /\ UNCHANGED <<procVars, termVars>>

\* ------------------------------------------------------------ specification
InitPicker ==
    /\ pickerState = "idle"
    /\ items = <<>>
    /\ cursor = 0
    /\ selected = <<>>
    /\ pickerQuitPending = FALSE
    /\ pickerRan = FALSE
    /\ quitKeySeen = FALSE
    /\ lastConfirm = NoConfirm

InitLaunch ==
    /\ taskPc = [i \in Ids |-> "idle"]
    /\ taskOutcome = [i \in Ids |-> "none"]
    /\ sessName = [i \in Ids |-> ""]
    /\ sessions = <<>>
    /\ mu = NoOwner
    /\ wg = 0

InitDrain ==
    /\ readPolicy = "line"
    /\ pipe = [i \in Ids |-> [st \in Streams |-> <<>>]]
    /\ drainPc = [i \in Ids |-> [st \in Streams |-> "idle"]]
    /\ chunk = [i \in Ids |-> [st \in Streams |-> <<>>]]
    /\ tmp = [i \in Ids |-> [st \in Streams |-> <<>>]]
    /\ Output = [i \in Ids |-> <<>>]
    /\ readLog = [i \in Ids |-> [st \in Streams |-> <<>>]]
    /\ appendLog = [i \in Ids |-> <<>>]

InitUI ==
    /\ uiState = "idle"
    /\ activeIndex = 0
    /\ quitPending = FALSE
    /\ updateCh = 0
    /\ waiters = 0
    /\ tickMsgs = 0
    /\ stdinWrites = [i \in Ids |-> <<>>]
    /\ sigAttempts = [i \in Ids |-> 0]
    /\ sigKills = [i \in Ids |-> 0]
    /\ events = 0
    /\ lastEvent = [kind |-> "none"]

InitProc ==
    /\ niRunning = {}
    /\ alive = [i \in Ids |-> FALSE]
    /\ stdinOpen = [i \in Ids |-> FALSE]
    /\ written = [i \in Ids |-> [st \in Streams |-> <<>>]]

InitTerm ==
    /\ view = NoView
    /\ interrupt = "none"

Init ==
    /\ InitProc
    /\ InitTerm
    /\ pc = "detect"
    /\ allServices \in ServiceLists
    /\ selectedServices = <<>>
    /\ interactiveServices = <<>>
    /\ nonInteractiveServices = <<>>
    /\ niIndex = 0
    /\ niLog = <<>>
    /\ spawnIdx = 0
    /\ InitPicker
    /\ InitLaunch
    /\ InitDrain
    /\ InitUI

Next ==
    \/ Detect
    \/ \E k \in PickerKeys : PickerUpdate(k)
    \/ PickerExit
    \/ PickerError
    \/ Split
    \/ NonInteractiveStart
    \/ \E o \in RunOutcomes : RunNonInteractive(o)
    \/ AfterNonInteractive
    \/ LaunchLoop
    \/ \E i \in Ids, o \in LaunchOutcomes : TaskStart(i, o)
    \/ \E i \in Ids : TaskLock(i)
    \/ \E i \in Ids : TaskAppend(i)
    \/ \E i \in Ids : TaskUnlock(i)
    \/ WaitDone
    \/ \E err \in BOOLEAN : UIReturn(err)

Spec == Init /\ [][Next]_vars

\* ------------------------------------------------------- multiplexerModel
QuitKeys == {"ctrl+c", "q"}
LeftKeys == {"left", "h"}
RightKeys_NoL == {"right"}
RightKeys == {"right", "l"}
NavKeys == LeftKeys \cup RightKeys
\* msg.String() of the keys the terminal can deliver; "a" and "enter" stand
\* for the keys that take the default branch
UIKeys == {"ctrl+c", "q", "left", "h", "right", "l", "a", "enter"}

\* what syscall.Getpgid returns; the result of syscall.Kill is discarded, so a
\* failing Kill is the same step as a successful one
SigOutcomes == {"ok", "lookupErr"}

\* updateCh is make(chan struct{}, 1)
UpdateChCap == 1

MoveLeft_Wrap(idx, n) == IF idx > 0 THEN idx - 1 ELSE n - 1
MoveLeft(idx, n) == IF idx > 0 THEN idx - 1 ELSE idx

MoveRight_NoBound(idx, n) == idx + 1
MoveRight(idx, n) == IF idx < n - 1 THEN idx + 1 ELSE idx

\* the stdin the default branch writes to: m.sessions[m.activeIndex]
ForwardKey_First(writes, ss, idx, text) ==
    [writes EXCEPT ![ss[1]] = Append(@, text)]
ForwardKey(writes, ss, idx, text) ==
    [writes EXCEPT ![ss[idx + 1]] = Append(@, text)]

\* number of loop iterations of "for _, sess := range m.sessions" on session i
Occurrences(ss, i) == Cardinality({j \in 1..Len(ss) : ss[j] = i})

\* one pass of the quit loop: Getpgid for every session of the registry
SignalAll(att, ss) == [i \in Ids |-> att[i] + Occurrences(ss, i)]

\* syscall.Kill is reached only when Getpgid returned no error
KillAll(kills, ss, out) ==
    [i \in Ids |-> kills[i] + Cardinality({j \in 1..Len(ss) : ss[j] = i /\ out[j] # "lookupErr"})]

\* every path of Update but the quit branch returns a new command that waits
\* on updateCh
WaitAgain_Never(w) == w
WaitAgain(w) == w + 1

\* the ticker goroutine: triggerUpdate's non-blocking send
TimerTick ==
    /\ uiState # "idle"
    /\ updateCh < UpdateChCap
    /\ updateCh' = updateCh + 1
    /\ UNCHANGED <<uiState, activeIndex, quitPending, waiters, tickMsgs,
                   stdinWrites, sigAttempts, sigKills, events, lastEvent>>
    /\ UNCHANGED <<flowVars, pickerVars, launchVars, drainVars>>
    /\ UNCHANGED <<procVars, termVars>>

\* a pending command (from Init or Update) receives from updateCh and its
\* struct{}{} message is on its way to the event loop
WaiterReceive ==
    /\ waiters > 0
    /\ updateCh > 0
    /\ updateCh' = updateCh - 1
    /\ waiters' = waiters - 1
    /\ tickMsgs' = tickMsgs + 1
    /\ UNCHANGED <<uiState, activeIndex, quitPending, stdinWrites, sigAttempts,
                   sigKills, events, lastEvent>>
    /\ UNCHANGED <<flowVars, pickerVars, launchVars, drainVars>>
    /\ UNCHANGED <<procVars, termVars>>

\* Update(struct{}{}): not a tea.KeyMsg, so only a new wait command is returned
UpdateTick ==
    /\ uiState = "running"
    /\ tickMsgs > 0
    /\ tickMsgs' = tickMsgs - 1
    /\ waiters' = WaitAgain(waiters)
    /\ lastEvent' = [kind |-> "tick"]
    /\ Render(activeIndex)
    /\ UNCHANGED <<uiState, activeIndex, quitPending, updateCh, stdinWrites,
                   sigAttempts, sigKills, events>>
    /\ UNCHANGED <<flowVars, pickerVars, launchVars, drainVars>>
    /\ UNCHANGED <<procVars, interrupt>>

\* what Update is given: the key, the focus index it finds, and whether the
\* write of the default branch succeeded (FALSE when nothing was written)
KeyEvent(k, idx, ok) == [kind |-> "key", key |-> k, index |-> idx, wrote |-> ok]

\* Stdin.Write on the pipe of a child: it fails once the child has exited,
\* and it can fail before (the child closed its stdin)
WriteOutcomes(running) == IF running THEN {TRUE, FALSE} ELSE {FALSE}

\* _, _ = active.Stdin.Write(...): both results are discarded
AfterWrite_FailStops(state, ok) == IF ok THEN state ELSE "exited"
AfterWrite(state, ok) == state

\* return m, tea.Quit: the quit command is handed to the runtime
QuitCmd_Dropped(pending) == pending
QuitCmd(pending) == TRUE

\* Update(tea.KeyMsg).  The quit branch returns tea.Quit, a command whose
\* QuitMsg reaches the event loop later (UIExit); until then the loop keeps
\* passing the messages it receives to Update.
UpdateKey(k) ==
    /\ uiState = "running"
    /\ events < MaxEvents
    /\ events' = events + 1
    /\ CASE k \in QuitKeys ->
              /\ \E out \in [1..Len(sessions) -> SigOutcomes] :
                     sigKills' = KillAll(sigKills, sessions, out)
              /\ sigAttempts' = SignalAll(sigAttempts, sessions)
              /\ quitPending' = QuitCmd(quitPending)
              /\ lastEvent' = KeyEvent(k, activeIndex, FALSE)
              /\ UNCHANGED <<uiState, activeIndex, stdinWrites, waiters>>
         [] k \in LeftKeys ->
              /\ activeIndex' = MoveLeft(activeIndex, Len(sessions))
              /\ waiters' = WaitAgain(waiters)
              /\ lastEvent' = KeyEvent(k, activeIndex, FALSE)
              /\ UNCHANGED <<uiState, quitPending, stdinWrites, sigAttempts, sigKills>>
         [] k \in RightKeys ->
              /\ activeIndex' = MoveRight(activeIndex, Len(sessions))
              /\ waiters' = WaitAgain(waiters)
              /\ lastEvent' = KeyEvent(k, activeIndex, FALSE)
              /\ UNCHANGED <<uiState, quitPending, stdinWrites, sigAttempts, sigKills>>
         [] OTHER ->
              /\ stdinWrites' = ForwardKey(stdinWrites, sessions, activeIndex, k)
              /\ \E ok \in WriteOutcomes(alive[sessions[activeIndex + 1]]) :
                     /\ lastEvent' = KeyEvent(k, activeIndex, ok)
                     /\ uiState' = AfterWrite(uiState, ok)
              /\ waiters' = WaitAgain(waiters)
              /\ UNCHANGED <<activeIndex, quitPending, sigAttempts, sigKills>>
    /\ Render(activeIndex')
    /\ UNCHANGED <<updateCh, tickMsgs>>
    /\ UNCHANGED <<flowVars, pickerVars, launchVars, drainVars>>
    /\ UNCHANGED <<procVars, interrupt>>

\* the QuitMsg of tea.Quit reaches the event loop: p.Run returns nil,
\* RunMultiplexer returns, and runCmd.Run returns
UIExit ==
    /\ pc = "ui"
    /\ uiState = "running"
    /\ quitPending
    /\ uiState' = "exited"
    /\ quitPending' = FALSE
    /\ pc' = "returned"
    /\ UNCHANGED <<allServices, selectedServices, interactiveServices,
                   nonInteractiveServices, niIndex, niLog, spawnIdx>>
    /\ UNCHANGED <<activeIndex, updateCh, waiters, tickMsgs, stdinWrites,
                   sigAttempts, sigKills, events, lastEvent>>
    /\ UNCHANGED <<pickerVars, launchVars, drainVars>>
    /\ UNCHANGED <<procVars, termVars>>

\* SIGINT is sent to the omnipath process itself (kill -INT), not typed:
\* the handler that tea.NewProgram installs queues a message for the event
\* loop, which takes it after the messages already queued and ends.  No
\* tea.KeyMsg is made, so Update's quit branch is not run.  p.Run returns
\* nil or an "interrupted" error, which runCmd.Run turns into log.Fatalf.
ExternalInterrupt(err) ==
    /\ pc = "ui"
    /\ uiState = "running"
    /\ interrupt = "none"
    /\ interrupt' = "handled"
    /\ uiState' = "exited"
    /\ pc' = IF err THEN "fatal" ELSE "returned"
    /\ UNCHANGED <<allServices, selectedServices, interactiveServices,
                   nonInteractiveServices, niIndex, niLog, spawnIdx>>
    /\ UNCHANGED <<activeIndex, quitPending, updateCh, waiters, tickMsgs,
                   stdinWrites, sigAttempts, sigKills, events, lastEvent>>
    /\ UNCHANGED view
    /\ UNCHANGED <<pickerVars, launchVars, drainVars, procVars>>

\* two of the orders in which n launch tasks can have appended their
\* sessions: the order of the descriptors and its reverse
Registries(n) == {[j \in 1..n |-> j], [j \in 1..n |-> n + 1 - j]}

\* runCmd.Run has launched n interactive services, all started, and has
\* called RunMultiplexer
Launched(n) ==
    /\ pc = "ui"
    /\ allServices = [i \in 1..n |-> Service(i, TRUE)]
    /\ selectedServices = allServices
    /\ interactiveServices = allServices
    /\ nonInteractiveServices = <<>>
    /\ niIndex = 0
    /\ niLog = <<>>
    /\ spawnIdx = n
    /\ pickerState = IF n > 1 THEN "exited" ELSE "idle"
    /\ items = <<>>
    /\ cursor = 0
    /\ selected = IF n > 1 THEN allServices ELSE <<>>
    /\ pickerQuitPending = FALSE
    /\ pickerRan = (n > 1)
    /\ quitKeySeen = FALSE
    /\ lastConfirm = IF n > 1 THEN [cursor |-> n - 1, checked |-> 1..n] ELSE NoConfirm
    /\ taskPc = [i \in Ids |-> IF i <= n THEN "done" ELSE "idle"]
    /\ taskOutcome = [i \in Ids |-> IF i <= n THEN "ok" ELSE "none"]
    /\ sessName = [i \in Ids |-> IF i <= n THEN NameOf(i) ELSE ""]
    /\ sessions \in Registries(n)
    /\ mu = NoOwner
    /\ wg = 0
    /\ niRunning = {}
    /\ alive = [i \in Ids |-> i <= n]
    /\ stdinOpen = [i \in Ids |-> i <= n]

\* the rendering of the model that Init returned, before any output
FirstView == view = View(sessions, sessName, 0, Output[sessions[1]])

InitUIRunning ==
    /\ uiState = "running"
    /\ activeIndex = 0
    /\ quitPending = FALSE
    /\ updateCh = 0
    /\ waiters = 1
    /\ tickMsgs = 0
    /\ stdinWrites = [i \in Ids |-> <<>>]
    /\ sigAttempts = [i \in Ids |-> 0]
    /\ sigKills = [i \in Ids |-> 0]
    /\ events = 0
    /\ lastEvent = [kind |-> "none"]
    /\ interrupt = "none"

\* the drain goroutines of the n sessions are blocked in their first read
DrainsStarted(n) ==
    /\ pipe = [i \in Ids |-> [st \in Streams |-> <<>>]]
    /\ drainPc = [i \in Ids |-> [st \in Streams |-> IF i <= n THEN "read" ELSE "idle"]]
    /\ chunk = [i \in Ids |-> [st \in Streams |-> <<>>]]
    /\ tmp = [i \in Ids |-> [st \in Streams |-> <<>>]]
    /\ Output = [i \in Ids |-> <<>>]
    /\ readLog = [i \in Ids |-> [st \in Streams |-> <<>>]]
    /\ appendLog = [i \in Ids |-> <<>>]
    /\ written = pipe

InitMux ==
    /\ \E n \in 1..MaxServices : Launched(n) /\ DrainsStarted(n)
    /\ readPolicy = "line"
    /\ InitUIRunning
    /\ FirstView

NextUI ==
    \/ TimerTick
    \/ WaiterReceive
    \/ UpdateTick
    \/ \E k \in UIKeys : UpdateKey(k)
    \/ UIExit
    \/ \E err \in BOOLEAN : ExternalInterrupt(err)

SpecUI == InitMux /\ [][NextUI]_vars

\* --------------------------------------------------------- drain goroutines
NL == "\n"

\* position of the first newline of a byte sequence, 0 when there is none
FirstNewline(bytes) ==
    IF \E k \in 1..Len(bytes) : bytes[k] = NL
    THEN CHOOSE k \in 1..Len(bytes) : bytes[k] = NL /\ \A j \in 1..(k - 1) : bytes[j] # NL
    ELSE 0


SeqsUpTo(S, n) == UNION {[1..k -> S] : k \in 0..n}

\* what a child writes to a stream before closing it: complete lines, then
\* possibly an unterminated tail
StreamsOf(lines, n, tails) ==
    {Flatten(ls) \o t : ls \in SeqsUpTo(lines, n), t \in tails}
StdoutStreams == StreamsOf({<<"x", NL>>, <<"y", NL>>}, MaxLines, {<<>>, <<"z">>})
StderrStreams == StreamsOf({<<"e", NL>>}, 1, {<<>>, <<"f">>})

\* reader.ReadString('\n') (readPolicy "line") or reader.Read(buffer)
\* (readPolicy "bytes") returns; on io.EOF the goroutine leaves its loop, and
\* ReadString's unterminated rest is dropped with it
DrainRead(i, st) ==
    /\ drainPc[i][st] = "read"
    /\ LET rest == pipe[i][st]
           nl == FirstNewline(rest)
       IN  IF readPolicy = "line"
           THEN IF nl > 0
                THEN /\ chunk' = [chunk EXCEPT ![i][st] = SubSeq(rest, 1, nl)]
                     /\ pipe' = [pipe EXCEPT ![i][st] = SubSeq(rest, nl + 1, Len(rest))]
                     /\ readLog' = [readLog EXCEPT ![i][st] = Append(@, SubSeq(rest, 1, nl))]
                     /\ drainPc' = [drainPc EXCEPT ![i][st] = "lock"]
                ELSE /\ pipe' = [pipe EXCEPT ![i][st] = <<>>]
                     /\ drainPc' = [drainPc EXCEPT ![i][st] = "done"]
                     /\ UNCHANGED <<chunk, readLog>>
           ELSE IF Len(rest) > 0
                THEN \E n \in 1..Len(rest) :
                     /\ chunk' = [chunk EXCEPT ![i][st] = SubSeq(rest, 1, n)]
                     /\ pipe' = [pipe EXCEPT ![i][st] = SubSeq(rest, n + 1, Len(rest))]
                     /\ readLog' = [readLog EXCEPT ![i][st] = Append(@, SubSeq(rest, 1, n))]
                     /\ drainPc' = [drainPc EXCEPT ![i][st] = "lock"]
                ELSE /\ drainPc' = [drainPc EXCEPT ![i][st] = "done"]
                     /\ UNCHANGED <<pipe, chunk, readLog>>
    /\ UNCHANGED <<readPolicy, tmp, Output, appendLog>>
    /\ UNCHANGED <<flowVars, pickerVars, launchVars, uiVars>>
    /\ UNCHANGED <<procVars, termVars>>

\* log.Printf and break: the goroutine that got the error leaves its loop
StopDrain_Session(dp, i, st) == [dp EXCEPT ![i] = [x \in Streams |-> "failed"]]
StopDrain(dp, i, st) == [dp EXCEPT ![i][st] = "failed"]

\* the read returns an error other than io.EOF: logged, the goroutine ends
DrainReadError(i, st) ==
    /\ drainPc[i][st] = "read"
    /\ drainPc' = StopDrain(drainPc, i, st)
    /\ UNCHANGED <<readPolicy, pipe, chunk, tmp, Output, readLog, appendLog>>
    /\ UNCHANGED <<flowVars, pickerVars, launchVars, uiVars>>
    /\ UNCHANGED <<procVars, termVars>>

\* mu.Lock()
DrainLock(i, st) ==
    /\ drainPc[i][st] = "lock"
    /\ MuFree(mu)
    /\ mu' = <<"drain", i, st>>
    /\ drainPc' = [drainPc EXCEPT ![i][st] = "load"]
    /\ UNCHANGED <<taskPc, taskOutcome, sessName, sessions, wg>>
    /\ UNCHANGED <<readPolicy, pipe, chunk, tmp, Output, readLog, appendLog>>
    /\ UNCHANGED <<flowVars, pickerVars, uiVars>>
    /\ UNCHANGED <<procVars, termVars>>

\* session.Output += chunk, first half: the current value is loaded
DrainLoad(i, st) ==
    /\ drainPc[i][st] = "load"
    /\ tmp' = [tmp EXCEPT ![i][st] = Output[i]]
    /\ drainPc' = [drainPc EXCEPT ![i][st] = "store"]
    /\ UNCHANGED <<readPolicy, pipe, chunk, Output, readLog, appendLog>>
    /\ UNCHANGED <<flowVars, pickerVars, launchVars, uiVars>>
    /\ UNCHANGED <<procVars, termVars>>

\* session.Output += chunk, second half: the concatenation is stored
DrainStore(i, st) ==
    /\ drainPc[i][st] = "store"
    /\ Output' = [Output EXCEPT ![i] = AppendOutput(tmp[i][st], chunk[i][st])]
    /\ appendLog' = [appendLog EXCEPT ![i] = Append(@, [stream |-> st, chunk |-> chunk[i][st]])]
    /\ drainPc' = [drainPc EXCEPT ![i][st] = "unlock"]
    /\ UNCHANGED <<readPolicy, pipe, chunk, tmp, readLog>>
    /\ UNCHANGED <<flowVars, pickerVars, launchVars, uiVars>>
    /\ UNCHANGED <<procVars, termVars>>

\* mu.Unlock()
DrainUnlock(i, st) ==
    /\ drainPc[i][st] = "unlock"
    /\ mu' = NoOwner
    /\ drainPc' = [drainPc EXCEPT ![i][st] = "read"]
    /\ UNCHANGED <<taskPc, taskOutcome, sessName, sessions, wg>>
    /\ UNCHANGED <<readPolicy, pipe, chunk, tmp, Output, readLog, appendLog>>
    /\ UNCHANGED <<flowVars, pickerVars, uiVars>>
    /\ UNCHANGED <<procVars, termVars>>

\* one session has been launched; its child will write any of the bounded
\* streams, and the drain code is either the ReadString or the Read variant
InitDrains ==
    /\ Launched(1)
    /\ InitUIRunning
    /\ readPolicy \in {"line", "bytes"}
    /\ \E out \in StdoutStreams, err \in StderrStreams :
           pipe = [i \in Ids |-> [st \in Streams |->
                      IF i = 1 THEN (IF st = "stdout" THEN out ELSE err) ELSE <<>>]]
    /\ drainPc = [i \in Ids |-> [st \in Streams |-> IF i = 1 THEN "read" ELSE "idle"]]
    /\ chunk = [i \in Ids |-> [st \in Streams |-> <<>>]]
    /\ tmp = [i \in Ids |-> [st \in Streams |-> <<>>]]
    /\ Output = [i \in Ids |-> <<>>]
    /\ readLog = [i \in Ids |-> [st \in Streams |-> <<>>]]
    /\ appendLog = [i \in Ids |-> <<>>]
    /\ written = pipe
    /\ FirstView

NextDrain ==
    \/ \E i \in Ids, st \in Streams : DrainRead(i, st)
    \/ \E i \in Ids, st \in Streams : DrainReadError(i, st)
    \/ \E i \in Ids, st \in Streams : DrainLock(i, st)
    \/ \E i \in Ids, st \in Streams : DrainLoad(i, st)
    \/ \E i \in Ids, st \in Streams : DrainStore(i, st)
    \/ \E i \in Ids, st \in Streams : DrainUnlock(i, st)

SpecDrain == InitDrains /\ [][NextDrain]_vars

\* ------------------------------------- launch tasks and drains together
\* two interactive services were confirmed in the picker, there was no
\* foreground service, and the launch loop is about to start; the child of
\* each service writes one line to its stdout, the first one also to stderr
InitShared ==
    /\ pc = "launch"
    /\ allServices = <<Service(1, TRUE), Service(2, TRUE)>>
    /\ selectedServices = allServices
    /\ interactiveServices = allServices
    /\ nonInteractiveServices = <<>>
    /\ niIndex = 0
    /\ niLog = <<>>
    /\ spawnIdx = 0
    /\ pickerState = "exited"
    /\ items = <<>>
    /\ cursor = 0
    /\ selected = allServices
    /\ pickerQuitPending = FALSE
    /\ pickerRan = TRUE
    /\ quitKeySeen = FALSE
    /\ lastConfirm = [cursor |-> 1, checked |-> {1, 2}]
    /\ InitLaunch
    /\ InitUI
    /\ InitTerm
    /\ niRunning = {}
    /\ alive = [i \in Ids |-> FALSE]
    /\ stdinOpen = [i \in Ids |-> FALSE]
    /\ readPolicy \in {"line", "bytes"}
    /\ pipe = [i \in Ids |-> [st \in Streams |->
                  IF i \in {1, 2} /\ st = "stdout" THEN <<"x", NL>>
                  ELSE IF i = 1 THEN <<"e", NL>> ELSE <<>>]]
    /\ drainPc = [i \in Ids |-> [st \in Streams |-> "idle"]]
    /\ chunk = [i \in Ids |-> [st \in Streams |-> <<>>]]
    /\ tmp = [i \in Ids |-> [st \in Streams |-> <<>>]]
    /\ Output = [i \in Ids |-> <<>>]
    /\ readLog = [i \in Ids |-> [st \in Streams |-> <<>>]]
    /\ appendLog = [i \in Ids |-> <<>>]
    /\ written = pipe

NextShared ==
    \/ LaunchLoop
    \/ \E i \in Ids, o \in LaunchOutcomes : TaskStart(i, o)
    \/ \E i \in Ids : TaskLock(i)
    \/ \E i \in Ids : TaskAppend(i)
    \/ \E i \in Ids : TaskUnlock(i)
    \/ NextDrain
    \/ WaitDone

SpecShared == InitShared /\ [][NextShared]_vars

\* ---------------------------------- launch, multiplexer and child exits
\* the child of a session exits by itself; nothing in the program waits for
\* it (cmd.Wait is never called), so no other variable changes
ProcExit(i) ==
    /\ alive[i]
    /\ alive' = [alive EXCEPT ![i] = FALSE]
    /\ UNCHANGED <<niRunning, stdinOpen, written>>
    /\ UNCHANGED <<flowVars, pickerVars, launchVars, drainVars, uiVars, termVars>>

InitHandOver ==
    /\ InitShared
    /\ readPolicy = "line"

NextHandOver ==
    \/ LaunchLoop
    \/ \E i \in Ids, o \in LaunchOutcomes : TaskStart(i, o)
    \/ \E i \in Ids : TaskLock(i)
    \/ \E i \in Ids : TaskAppend(i)
    \/ \E i \in Ids : TaskUnlock(i)
    \/ WaitDone
    \/ \E i \in Ids : ProcExit(i)
    \/ NextUI

SpecHandOver == InitHandOver /\ [][NextHandOver]_vars

\* ------------------------------- the multiplexer beside one living child
\* one session; its child may exit or not, its pipes may reach end-of-stream
\* or not
\* one session whose child has written a line to stdout that its drain has
\* not read yet; both drains are blocked in their first read
QuitPipes ==
    [i \in Ids |-> [st \in Streams |->
        IF i = 1 /\ st = "stdout" THEN <<"x", NL>> ELSE <<>>]]

InitQuit ==
    /\ Launched(1)
    /\ pipe = QuitPipes
    /\ drainPc = [i \in Ids |-> [st \in Streams |-> IF i = 1 THEN "read" ELSE "idle"]]
    /\ chunk = [i \in Ids |-> [st \in Streams |-> <<>>]]
    /\ tmp = [i \in Ids |-> [st \in Streams |-> <<>>]]
    /\ Output = [i \in Ids |-> <<>>]
    /\ readLog = [i \in Ids |-> [st \in Streams |-> <<>>]]
    /\ appendLog = [i \in Ids |-> <<>>]
    /\ written = pipe
    /\ readPolicy = "line"
    /\ InitUIRunning
    /\ FirstView

NextQuit ==
    \/ \E k \in UIKeys : UpdateKey(k)
    \/ UIExit
    \/ NextDrain
    \/ \E i \in Ids : ProcExit(i)

\* the runtime delivers the QuitMsg of a tea.Quit command that was returned;
\* nothing is assumed about the child, the drains, the keyboard or the ticker
FairQuit == WF_vars(UIExit)

SpecQuit == InitQuit /\ [][NextQuit]_vars /\ FairQuit

\* ------------------------------------------------ View as a function
\* View applied to registries of up to MaxRows sessions, to every focus index
\* and to a few buffers; the other variables play no part
ViewBuffers == {<<>>, <<"x", NL>>, <<"x", NL, "z">>, <<"e", NL, "x", NL>>}
RowNames(n) == [j \in 1..n |-> "svc"]

InitView ==
    /\ Init
    /\ allServices = <<>>

InputsOfView == {[j \in 1..n |-> j] : n \in 1..MaxRows}

RenderView(ss, idx, out) ==
    /\ view = NoView
    /\ view' = View(ss, RowNames(Len(ss)), idx, out)
    /\ UNCHANGED <<flowVars, pickerVars, launchVars, drainVars, uiVars, procVars, interrupt>>

NextView ==
    \E ss \in InputsOfView, out \in ViewBuffers :
        \E idx \in 0..(Len(ss) - 1) : RenderView(ss, idx, out)

SpecView == InitView /\ [][NextView]_vars

\* ------------------------------------------- drains and redraws together
\* what the child of the session writes while the multiplexer is on screen
LiveStdout == {<<"x", NL>>, <<"x", NL, "z">>}
LiveStderr == {<<>>, <<"e", NL>>}

InitLive ==
    /\ InitDrains
    /\ pipe[1]["stdout"] \in LiveStdout
    /\ pipe[1]["stderr"] \in LiveStderr

\* no key is typed: the drains, the ticker and the event loop run
NextLive ==
    \/ NextDrain
    \/ TimerTick
    \/ WaiterReceive
    \/ UpdateTick

\* the ticker goroutine loops for ever, the runtime runs a command whose
\* receive is possible, the event loop handles a message that is queued, and
\* a drain that holds mu is scheduled until it has released it
FairLive ==
    /\ WF_vars(TimerTick)
    /\ WF_vars(WaiterReceive)
    /\ WF_vars(UpdateTick)
    /\ WF_vars(\E i \in Ids, st \in Streams :
                   DrainLoad(i, st) \/ DrainStore(i, st) \/ DrainUnlock(i, st))

SpecLive == InitLive /\ [][NextLive]_vars /\ FairLive

\* ================================================================== claims
\* The multiplexer is Running while its event loop is alive and no quit key
\* has been handled; it is Terminating while a tea.Quit command is in flight.
Running == uiState = "running" /\ ~quitPending
Terminating == uiState = "running" /\ quitPending
Exited == uiState = "exited"

\* a step of the event loop that passed a message to Update
UpdateStep == events' = events + 1
KeyStep(keys) == UpdateStep /\ lastEvent'.kind = "key" /\ lastEvent'.key \in keys

\* C1: from the first quit key until the event loop has exited, exactly one
\* interrupt-signal attempt is made for every session of the registry (N
\* attempts for N sessions), whatever the outcome of each attempt.
C1_QuitSignalsEachSessionOnce ==
    (Exited /\ interrupt = "none") => \A j \in 1..Len(sessions) : sigAttempts[sessions[j]] = 1

\* C2: the focus index always lies in 0..N-1; move-left at 0 and move-right
\* at N-1 leave it unchanged, every other move changes it by exactly one, and
\* no other event changes it.
C2_FocusBounded ==
    /\ [](uiState # "idle" => activeIndex \in 0..(Len(sessions) - 1))
    /\ [][/\ KeyStep(LeftKeys) =>
                activeIndex' = IF activeIndex = 0 THEN 0 ELSE activeIndex - 1
          /\ KeyStep(RightKeys) =>
                activeIndex' = IF activeIndex = Len(sessions) - 1
                               THEN Len(sessions) - 1 ELSE activeIndex + 1
          /\ (UpdateStep /\ ~KeyStep(NavKeys)) => activeIndex' = activeIndex]_vars

\* move-right was handled with the focus on the last of three sessions
C2_Witness ==
    /\ Len(sessions) = 3
    /\ lastEvent.kind = "key"
    /\ lastEvent.key \in RightKeys
    /\ lastEvent.index = 2
    /\ activeIndex = 2

\* C7: in Running, a key that is neither a quit key nor a navigation key is
\* written exactly once to the stdin of the session at the focus index and to
\* no other stdin; focus index and registry stay as they were.
C7_KeyForwardedToFocused ==
    [][(Running /\ KeyStep(UIKeys \ (QuitKeys \cup NavKeys))) =>
          /\ stdinWrites' = [stdinWrites EXCEPT
                                ![sessions[activeIndex + 1]] = Append(@, lastEvent'.key)]
          /\ activeIndex' = activeIndex
          /\ sessions' = sessions]_vars

\* "a" was forwarded while the second session of the registry had the focus
C7_Witness ==
    /\ Len(sessions) >= 2
    /\ lastEvent.kind = "key"
    /\ lastEvent.key = "a"
    /\ lastEvent.index = 1
    /\ stdinWrites[sessions[2]] = <<"a">>
    /\ \A i \in Ids : i # sessions[2] => stdinWrites[i] = <<>>

\* the launch phase is over: every launch task has been spawned and has
\* finished, and wg.Wait() can return or has returned
LaunchEnded ==
    /\ Len(interactiveServices) > 0
    /\ spawnIdx = Len(interactiveServices)
    /\ pc \in {"wait", "ui", "fatal", "returned"}
    /\ wg = 0

\* C3: when the launch phase ends the registry holds exactly one Session for
\* every interactive service whose pipes and start all succeeded and none for
\* a service that failed, under every interleaving; a failed task stays
\* failed (no retry), holds no lock and never removes a sibling's Session.
C3_RegistryMatchesStarted ==
    /\ [](LaunchEnded =>
            /\ \A i \in 1..Len(interactiveServices) :
                  Occurrences(sessions, i) = IF taskOutcome[i] = "ok" THEN 1 ELSE 0
            /\ Range(sessions) \subseteq 1..Len(interactiveServices)
            /\ \A j \in 1..Len(sessions) :
                  sessName[sessions[j]] = interactiveServices[sessions[j]].Name)
    /\ [](\A i \in Ids : taskPc[i] = "failed" => mu # <<"task", i>>)
    /\ [][/\ IsPrefix(sessions, sessions')
          /\ \A i \in Ids : taskPc[i] = "failed" => taskPc'[i] = "failed"]_vars

\* three launches, the second failed in c.Start(), the third appended its
\* session before the first, and the registry was handed to the UI
C3_Witness ==
    /\ pc = "ui"
    /\ Len(interactiveServices) = 3
    /\ taskOutcome[2] = "startErr"
    /\ sessions = <<3, 1>>

RECURSIVE SumLens(_)
SumLens(log) == IF log = <<>> THEN 0 ELSE Len(Head(log).chunk) + SumLens(Tail(log))

IsSubstring(c, s) ==
    \E off \in 0..(Len(s) - Len(c)) : SubSeq(s, off + 1, off + Len(c)) = c

ChunksOf(log) == [k \in 1..Len(log) |-> log[k].chunk]
StreamChunks(log, st) == ChunksOf(SelectSeq(log, LAMBDA e : e.stream = st))

\* C4: concurrent appends of the stdout and the stderr drain of one session
\* never lose, duplicate or split a chunk: the buffer's length is the sum of
\* the lengths of the chunks appended so far and every appended chunk is a
\* contiguous substring of the buffer.
C4_NoLostOrSplitChunk ==
    \A i \in Ids :
        /\ Len(Output[i]) = SumLens(appendLog[i])
        /\ \A k \in 1..Len(appendLog[i]) : IsSubstring(appendLog[i][k].chunk, Output[i])

\* stderr's chunk went in between two stdout chunks, and the stderr drain
\* waits for the lock again while the stdout drain is inside its append
C4_Witness ==
    /\ Len(appendLog[1]) >= 2
    /\ appendLog[1][1].stream = "stdout"
    /\ appendLog[1][2].stream = "stderr"
    /\ drainPc[1]["stdout"] = "store"
    /\ drainPc[1]["stderr"] = "lock"

\* C5: the buffer is append-only (each value is a prefix of every later one),
\* it is the concatenation of the appended chunks, the chunks of one stream
\* are appended in the order they were read, and "x\n" then "y\n" read from
\* stdout with nothing from stderr give exactly "x\ny\n".
C5_AppendOnlyInOrder ==
    /\ [][\A i \in Ids : IsPrefix(Output[i], Output'[i])]_vars
    /\ [](\A i \in Ids :
            /\ Output[i] = Flatten(ChunksOf(appendLog[i]))
            /\ \A st \in Streams : IsPrefix(StreamChunks(appendLog[i], st), readLog[i][st])
            /\ (/\ readLog[i]["stdout"] = <<<<"x", NL>>, <<"y", NL>>>>
                /\ readLog[i]["stderr"] = <<>>
                /\ Len(appendLog[i]) = 2) => Output[i] = <<"x", NL, "y", NL>>)

\* both lines were read from stdout and appended, stderr was silent
C5_Witness ==
    /\ readLog[1]["stdout"] = <<<<"x", NL>>, <<"y", NL>>>>
    /\ readLog[1]["stderr"] = <<>>
    /\ drainPc[1]["stdout"] = "done"
    /\ drainPc[1]["stderr"] = "done"
    /\ Output[1] = <<"x", NL, "y", NL>>

\* every launch task of a non-empty interactive selection has failed
AllLaunchesFailed ==
    /\ Len(interactiveServices) > 0
    /\ spawnIdx = Len(interactiveServices)
    /\ \A i \in 1..Len(interactiveServices) : taskPc[i] = "failed"

\* C6: when every interactive launch failed the program ends in log.Fatalf
\* (non-zero status) and the UI is never started; the UI is only ever
\* entered with at least one session in the registry.
C6_NoUIWithoutSessions ==
    /\ uiState # "idle" => Len(sessions) >= 1
    /\ (AllLaunchesFailed /\ pc \notin {"launch", "wait"}) =>
           (pc = "fatal" /\ uiState = "idle")

\* two interactive services were selected, both launches failed, fatal exit
C6_Witness ==
    /\ AllLaunchesFailed
    /\ Len(interactiveServices) = 2
    /\ pc = "fatal"
    /\ uiState = "idle"

C9_QuitStartsNothing ==
    (quitKeySeen /\ pickerState = "exited") =>
        /\ selectedServices = <<>>
        /\ pc = "returned"
        /\ niLog = <<>>
        /\ \A i \in Ids : taskPc[i] = "idle"
        /\ uiState = "idle"

\* C10: a single descriptor is the selection, and the picker is never run.
C10_SingleServiceAutoSelected ==
    (Len(allServices) = 1 /\ pc # "detect") =>
        /\ selectedServices = allServices
        /\ ~pickerRan
        /\ pickerState = "idle"

\* the only descriptor, an interactive one, was launched without the picker
C10_Witness ==
    /\ Len(allServices) = 1
    /\ pc = "ui"
    /\ sessions = <<1>>
    /\ ~pickerRan

\* C11: an interrupt signal sent to the program while the multiplexer
\* is running causes, like the quit key, an interrupt-signal attempt for
\* every session's process group before the event loop has exited.
C11_InterruptSignalsEachSession ==
    (Exited /\ interrupt = "handled") =>
        \A j \in 1..Len(sessions) : sigAttempts[sessions[j]] >= 1

\* the selected descriptors that are not interactive, in selection order
SelectedForeground == SelectSeq(selectedServices, LAMBDA s : ~s.Interactive)
SelectedInteractive == SelectSeq(selectedServices, LAMBDA s : s.Interactive)

\* C13: every selected non-interactive service is run exactly once, one at a
\* time and in selection order; a spawn error or a failing exit of one of
\* them stops neither the remaining ones nor the interactive launch, and no
\* non-interactive service ever gets a session.
C13_ForegroundRunsAllInOrder ==
    /\ [](Cardinality(niRunning) <= 1)
    /\ [](pc \in {"nonint", "launch", "wait", "ui"} =>
            /\ Len(niLog) <= Len(SelectedForeground)
            /\ \A k \in 1..Len(niLog) : niLog[k].Name = SelectedForeground[k].Name)
    /\ [](pc \in {"launch", "wait", "ui"} => Len(niLog) = Len(SelectedForeground))
    /\ [][(pc = "nonint" /\ pc' # "nonint") =>
            /\ Len(niLog) = Len(SelectedForeground)
            /\ (pc' = "launch") = (Len(SelectedInteractive) > 0)]_vars
    /\ [](\A j \in 1..Len(sessions) :
            /\ sessName[sessions[j]] \in {SelectedInteractive[k].Name : k \in 1..Len(SelectedInteractive)}
            /\ \A k \in 1..Len(niLog) : niLog[k].Name # sessName[sessions[j]])

\* two foreground commands have run, the first one failed, and the launch of
\* the interactive service has begun all the same
C13_Witness ==
    /\ pc = "wait"
    /\ Len(niLog) = 2
    /\ niLog[1].outcome = "spawnErr"
    /\ niLog[2].outcome = "exitErr"
    /\ Len(sessions) = 1

\* C12: while the multiplexer is running and no key is typed, every chunk
\* appended to the focused session's buffer is eventually part of a rendered
\* view: whenever the buffer differs from what the last view shows, a view
\* that shows the whole buffer of that later moment (the buffer only grows,
\* so the chunk too) is eventually rendered.
C12_AppendEventuallyRendered ==
    (view.output # Output[sessions[activeIndex + 1]]) ~>
        (view.output = Output[sessions[activeIndex + 1]])

\* both streams have been appended in several chunks and the view on screen
\* shows all of them
C12_Witness ==
    /\ Len(appendLog[1]) >= 3
    /\ view.output = Output[1]
    /\ lastEvent.kind = "tick"

\* a step of the event loop that rendered the model anew
TickStep == tickMsgs' = tickMsgs - 1
RenderStep == TickStep \/ KeyStep(UIKeys)

MarkedRows(v) == {k \in 1..Len(v.header) : v.header[k].marker = "> "}
RowsOf(v, i) == {k \in 1..Len(v.header) : v.header[k].index = i}

\* C14: in every rendered view exactly one header row carries the focus
\* marker, it is the row of the session at the focus index, every session
\* has exactly one header row, and the output below the separator is the
\* complete current buffer of the focused session.
C14_ViewShowsFocusedBuffer ==
    [][RenderStep =>
        /\ Cardinality(MarkedRows(view')) = 1
        /\ \A k \in MarkedRows(view') :
               /\ view'.header[k].index = activeIndex'
               /\ view'.header[k].name = sessName[sessions[activeIndex' + 1]]
        /\ \A j \in 1..Len(sessions) : Cardinality(RowsOf(view', j - 1)) = 1
        /\ view'.output = Output'[sessions[activeIndex' + 1]]]_vars

\* C15: View reads a session's Output only under the lock the drains hold
\* while they append: no rendering happens while a drain of the session
\* whose buffer is read is between its mu.Lock() and its mu.Unlock().
C15_ViewReadsUnderLock ==
    [][RenderStep =>
        \A st \in Streams :
            drainPc[sessions[activeIndex' + 1]][st] \notin {"load", "store", "unlock"}]_vars

\* the goroutines that are between a mu.Lock() and the mu.Unlock() after it
DrainsInside ==
    {<<"drain", d[1], d[2]>> :
        d \in {e \in Ids \X Streams : drainPc[e[1]][e[2]] \in {"load", "store", "unlock"}}}
TasksInside == {<<"task", i>> : i \in {j \in Ids : taskPc[j] \in {"append", "unlock"}}}

C17_NoByteLost ==
    \A i \in Ids, st \in Streams :
        drainPc[i][st] = "done" =>
            Flatten(StreamChunks(appendLog[i], st)) = written[i][st]

\* C18: once the event loop has exited, no session holds an open stdin
\* handle to its child.
C18_StdinClosedAtExit ==
    Exited => \A j \in 1..Len(sessions) : ~stdinOpen[sessions[j]]

ForwardedKeys == UIKeys \ (QuitKeys \cup NavKeys)

\* C20: a forwarded key whose write to the focused session's stdin fails is
\* ignored: the multiplexer stays running with the same focus index and the
\* same registry, the program does not end with an error, and no session is
\* signaled or removed.
C20_FailedWriteIgnored ==
    [][(KeyStep(ForwardedKeys) /\ ~lastEvent'.wrote) =>
        /\ uiState' = uiState
        /\ quitPending' = quitPending
        /\ activeIndex' = activeIndex
        /\ sessions' = sessions
        /\ sigAttempts' = sigAttempts
        /\ sigKills' = sigKills
        /\ pc' = pc
        /\ stdinWrites' = ForwardKey(stdinWrites, sessions, activeIndex, lastEvent'.key)]_vars

\* the second session is focused, a key was forwarded to it, the write
\* failed, and the multiplexer is still running
C20_Witness ==
    /\ Running
    /\ lastEvent.kind = "key"
    /\ lastEvent.key = "a"
    /\ ~lastEvent.wrote
    /\ activeIndex = 1
    /\ stdinWrites[sessions[2]] = <<"a">>
    /\ Len(sessions) = 2

\* C19: the registry is handed to the multiplexer only after every launch
\* task has finished, with or without a session, and from then on it is
\* fixed: while the multiplexer runs no session is added, removed or
\* reordered, also when the process of a session exits.
C19_RegistryFixedAfterHandOver ==
    /\ [](uiState # "idle" =>
            \A i \in 1..Len(interactiveServices) : taskPc[i] \in {"done", "failed"})
    /\ [][uiState' # "idle" => sessions' = sessions]_vars

\* one launch failed, the other session is on screen, its process has
\* exited and keys have been handled since
C19_Witness ==
    /\ Running
    /\ taskOutcome[1] = "startErr"
    /\ sessions = <<2>>
    /\ ~alive[2]
    /\ events >= 2

\* C21: a drain ends at end-of-stream, and a read error other than
\* end-of-stream stops only the drain that saw it: the step changes nothing
\* of the sibling drain, of the drains of other sessions, of the buffers, of
\* the lock or of the multiplexer, and a drain that has ended holds no lock.
C21_ReadErrorStopsOneDrain ==
    /\ [][\A i \in Ids, st \in Streams :
            (drainPc[i][st] = "read" /\ drainPc'[i][st] = "failed") =>
                /\ \A j \in Ids, t \in Streams :
                       <<j, t>> # <<i, st>> => drainPc'[j][t] = drainPc[j][t]
                /\ Output' = Output
                /\ mu' = mu
                /\ sessions' = sessions
                /\ uiState' = uiState
                /\ pc' = pc]_vars
    /\ [][\A i \in Ids, st \in Streams :
            (drainPc[i][st] # "done" /\ drainPc'[i][st] = "done") =>
                drainPc[i][st] = "read" /\ pipe'[i][st] = <<>>]_vars
    /\ [](\A i \in Ids, st \in Streams :
            drainPc[i][st] \in {"done", "failed"} => mu # <<"drain", i, st>>)

\* the stdout drain of the first session failed at its first read; its
\* stderr drain and the drain of the other session have appended their
\* lines and the multiplexer is running
C21_Witness ==
    /\ drainPc[1]["stdout"] = "failed"
    /\ readLog[1]["stdout"] = <<>>
    /\ Output[1] = <<"e", NL>>
    /\ Output[2] = <<"x", NL>>
    /\ drainPc[1]["stderr"] = "done"
    /\ uiState = "running"

QuitKeyHandled == lastEvent.kind = "key" /\ lastEvent.key \in QuitKeys

C23_ForegroundBeforeLaunch ==
    (spawnIdx > 0 \/ \E i \in Ids : taskPc[i] # "idle") =>
        /\ niRunning = {}
        /\ niIndex = Len(SelectedForeground)
        /\ Len(niLog) = Len(SelectedForeground)

\* the first launch task has just been created after two foreground commands
C23_Witness ==
    /\ pc = "launch"
    /\ spawnIdx = 1
    /\ taskPc[1] = "start"
    /\ Len(niLog) = 2

\* C24: the header of a rendered view has the same number of lines, the
\* fixed header height, for every registry size N >= 1.
C24_HeaderHeightFixed ==
    view # NoView => Len(view.header) = headerHeight

\* the descriptors of s at the positions in rows, in the order of s
RECURSIVE Restrict(_, _)
Restrict(s, rows) ==
    IF s = <<>> THEN <<>>
    ELSE LET front == Restrict(SubSeq(s, 1, Len(s) - 1), rows)
         IN  IF Len(s) \in rows THEN Append(front, s[Len(s)]) ELSE front

\* C25: a confirm handled while at least one row is checked sets the
\* selection to exactly the checked descriptors in descriptor order, whatever
\* the toggle order and the cursor position, and that is what the picker
\* returns; a selection set by a confirm is never empty.
C25_ConfirmReturnsChecked ==
    lastConfirm # NoConfirm =>
        /\ Len(selected) > 0
        /\ lastConfirm.checked # {} =>
               /\ selected = Restrict(allServices, lastConfirm.checked)
               /\ pickerState = "exited" =>
                      selectedServices = Restrict(allServices, lastConfirm.checked)

\* rows 1 and 3 of three were checked and confirm was pressed on row 2
C25_Witness ==
    /\ Len(allServices) = 3
    /\ pickerState = "exited"
    /\ lastConfirm = [cursor |-> 1, checked |-> {1, 3}]
    /\ selectedServices = <<allServices[1], allServices[3]>>

\* C26: once the quit key has been handled, no later key event is acted on
\* before the event loop exits: nothing more is written to any stdin and the
\* focus does not change.
C26_NothingAfterQuit ==
    [][quitPending => (stdinWrites' = stdinWrites /\ activeIndex' = activeIndex)]_vars

\* C27: at most one wait-for-tick command is outstanding (blocked receiving
\* from the update channel), however many key and tick events are handled.
C27_OneWaiter ==
    waiters <= 1

\* C28: the registry handed to the UI lists the sessions in the order of the
\* selected interactive descriptors, restricted to those that started, under
\* every interleaving of the launch tasks.
C28_RegistryInDescriptorOrder ==
    LaunchEnded =>
        \A j, k \in 1..Len(sessions) : j < k => sessions[j] < sessions[k]

\* the keys that must never reach a child
ControlKeys == {"ctrl+c", "q", "left", "h", "right", "l"}

\* C29: handling a quit or navigation key writes nothing to any session's
\* stdin, for every focus index and also when a navigation key at a bound
\* leaves the focus where it was; handling a tick message writes nothing and
\* leaves the focus index unchanged.
C29_ControlKeysNotForwarded ==
    [][/\ KeyStep(ControlKeys) => stdinWrites' = stdinWrites
       /\ TickStep => (stdinWrites' = stdinWrites /\ activeIndex' = activeIndex)]_vars

\* "l" was pressed with the focus on the last of two sessions: the focus
\* stayed there and no stdin has been written to
C29_Witness ==
    /\ Len(sessions) = 2
    /\ lastEvent.kind = "key"
    /\ lastEvent.key = "l"
    /\ lastEvent.index = 1
    /\ activeIndex = 1
    /\ \A i \in Ids : stdinWrites[i] = <<>>

OnlyForeground == selectedServices # <<>> /\ Len(SelectedInteractive) = 0

\* C30: when every selected service is non-interactive the run returns
\* normally once all of them have been executed: no launch task is started,
\* no session is created, the multiplexer is never entered and the fatal
\* exit for an empty registry is not taken.
C30_ForegroundOnlyEndsCleanly ==
    OnlyForeground =>
        /\ pc \in {"split", "nonint", "returned"}
        /\ spawnIdx = 0
        /\ wg = 0
        /\ \A i \in Ids : taskPc[i] = "idle"
        /\ sessions = <<>>
        /\ uiState = "idle"
        /\ pc = "returned" =>
               (niRunning = {} /\ Len(niLog) = Len(selectedServices))

\* two non-interactive services were selected and run, then the run returned
C30_Witness ==
    /\ OnlyForeground
    /\ Len(selectedServices) = 2
    /\ Len(niLog) = 2
    /\ pc = "returned"
    /\ sessions = <<>>

====
